---- MODULE Spec2Model ----
(***************************************************************************)
(* Model of oscar_web_simple.py: the /convert request handler, the         *)
(* OSCARConverter (NetCDF reader and GRIB2 message encoder) and the        *)
(* temporary files and message handles a request uses.                     *)
(*                                                                         *)
(* Numbers stand for the floating-point and integer values of the code;    *)
(* a string is a sequence of one-character strings.                        *)
(***************************************************************************)
EXTENDS Integers, Sequences, FiniteSets, TLC

VARIABLES
    active,       \* the request threads of this run (werkzeug: one per request)
    pc,           \* pc[r]: where request r is in convert()
    req,          \* req[r]: the request received (upload, filename, library behaviour)
    temp_input,   \* temp_input[r]: the local of convert(), a path or None
    temp_output,  \* temp_output[r]: the local of convert(), a path or None
    files,        \* the temporary directory: path -> file
    ds,           \* ds[r]: what OSCARConverter.convert read from its input file
    cur,          \* cur[r]: the _write_message call in progress (0: none)
    gid,          \* gid[r]: the keys of the message handle being filled
    handles,      \* handles[r]: per handle acquired, how often it was released
    exc,          \* exc[r]: the exception raised in the request ("none")
    resp          \* resp[r]: the response returned

vars == <<active, pc, req, temp_input, temp_output, files, ds, cur, gid,
          handles, exc, resp>>

----------------------------------------------------------------------------
(* Bounds of the inputs. *)

\* axis lengths 0..MaxLen of the uploads that vary the field contents
MaxLen == 2
\* at most this many cells of one field hold the fill value
MaxMissing == 1
\* axis lengths 0..MaxAxisLen of the uploads that vary the coordinate axes
MaxAxisLen == 3
\* coordinate values 0..MaxCoord
MaxCoord == 1
\* an uploaded filename is made of at most this many segments
MaxSegs == 3

----------------------------------------------------------------------------
(* Values. *)

Handlers == {"h1", "h2"}
TmpNames == {"tmpA", "tmpB"}
None == <<>>

\* str(): a string as the sequence of its characters
S_nc4 == <<".", "n", "c", "4">>
S_nc == <<".", "n", "c">>
S_grb2 == <<".", "g", "r", "b", "2">>
S_a == <<"a">>

\* a float that is NaN, and one that is the number x
NaN == [nan |-> TRUE, v |-> 0]
Num(x) == [nan |-> FALSE, v |-> x]
IsNaN(x) == x.nan

Abs(x) == IF x < 0 THEN -x ELSE x

RECURSIVE Concat(_)
Concat(ss) == IF ss = <<>> THEN <<>> ELSE Head(ss) \o Concat(Tail(ss))

SeqsUpTo(S, n) == UNION {[1..k -> S] : k \in 0..n}

----------------------------------------------------------------------------
(* The uploads: a NetCDF file as xarray reads it.  u and v are stored      *)
(* (time, lon, lat); only time slice 0 is kept here: u[j][i] is the value  *)
(* at longitude j, latitude i.                                             *)

FillDefault == -999
\* a file whose field u declares its own fill value
DeclaredAttrs == [_FillValue |-> -9999]

NoAttrs == [k \in {} |-> 0]
AttrsGet(attrs, key, default) == IF key \in DOMAIN attrs THEN attrs[key] ELSE default

Cells(nlon, nlat) == (1..nlon) \X (1..nlat)

\* a stored field whose cells in miss hold the fill value; the others hold
\* distinct numbers, 0 among them
StoredField(nlon, nlat, miss, fill) ==
    [j \in 1..nlon |-> [i \in 1..nlat |->
        IF <<j, i>> \in miss THEN fill ELSE (j - 1) * nlat + (i - 1)]]

BaseAxis(n) == [k \in 1..n |-> k - 1]

SmallSubsets(S, n) == {T \in SUBSET S : Cardinality(T) <= n}

Dataset(lats, lons, u, v, uattrs) ==
    [lats |-> lats, lons |-> lons, u |-> u, v |-> v, uattrs |-> uattrs,
     time |-> [year |-> 2024, month |-> 3, day |-> 7]]

\* uploads that vary the fields: which cells of u and of v are missing, and
\* whether u declares its fill value
GridDatasets ==
    { Dataset(BaseAxis(nlat), BaseAxis(nlon),
              StoredField(nlon, nlat, mu, AttrsGet(a, "_FillValue", FillDefault)),
              StoredField(nlon, nlat, mv, AttrsGet(a, "_FillValue", FillDefault)), a) :
        <<nlat, nlon, mu, mv, a>> \in
          { t \in (0..MaxLen) \X (0..MaxLen)
                  \X SmallSubsets(Cells(MaxLen, MaxLen), MaxMissing)
                  \X SmallSubsets(Cells(MaxLen, MaxLen), MaxMissing)
                  \X {NoAttrs, DeclaredAttrs} :
              /\ t[3] \subseteq Cells(t[2], t[1])
              /\ t[4] \subseteq Cells(t[2], t[1]) } }

\* uploads that vary the axes: any coordinate values, increasing or not
Axes == SeqsUpTo(0..MaxCoord, MaxAxisLen)

AxisDatasets ==
    { Dataset(lats, lons,
              StoredField(Len(lons), Len(lats), {}, FillDefault),
              StoredField(Len(lons), Len(lats), {}, FillDefault), NoAttrs) :
        <<lats, lons>> \in Axes \X Axes }

\* the end-to-end scenario's shape: 2 x 2, one cell of u missing
NominalDataset ==
    Dataset(<<10, 20>>, <<100, 110>>,
            StoredField(2, 2, {<<2, 2>>}, FillDefault),
            StoredField(2, 2, {}, FillDefault), NoAttrs)

OtherDataset ==
    Dataset(<<30, 20>>, <<5, 7>>,
            StoredField(2, 2, {}, FillDefault),
            StoredField(2, 2, {<<1, 1>>}, FillDefault), NoAttrs)

\* uploaded filenames: up to MaxSegs of "a", ".nc", ".nc4"; none is ''
Filenames == {Concat(ss) : ss \in SeqsUpTo({S_a, S_nc, S_nc4}, MaxSegs)}
NominalName == S_a \o S_nc4


----------------------------------------------------------------------------
(* What the eccodes library and the reader do with one request: "none", or *)
(* the call of message msg (1: u, 2: v) that raises; "corrupt" makes       *)
(* codes_write put bytes that do not start with GRIB.                      *)

NoFault == [msg |-> 0, kind |-> "none"]
Faults ==
    {NoFault, [msg |-> 0, kind |-> "reader"]}
    \cup [msg : {1, 2}, kind : {"new", "set", "values", "write", "corrupt"}]

Request(hasFile, filename, data, fault) ==
    [hasFile |-> hasFile, filename |-> filename, data |-> data, fault |-> fault]

NoRequest == Request(FALSE, <<>>, Dataset(<<>>, <<>>, <<>>, <<>>, NoAttrs), NoFault)

\* a request on its own: every upload, every filename, every library failure
FullPool ==
    {Request(TRUE, NominalName, d, NoFault) : d \in GridDatasets \cup AxisDatasets}
    \cup {Request(TRUE, n, NominalDataset, NoFault) : n \in Filenames}
    \cup {Request(TRUE, NominalName, d, f) :
            d \in {NominalDataset, OtherDataset}, f \in Faults}
    \cup {Request(FALSE, <<>>, NominalDataset, NoFault)}

\* concurrent requests: two different uploads, one failing conversion, one
\* request without a file
ConcPool ==
    {Request(TRUE, NominalName, d, NoFault) : d \in {NominalDataset, OtherDataset}}
    \cup {Request(TRUE, NominalName, NominalDataset, [msg |-> 2, kind |-> "write"])}
    \cup {Request(FALSE, <<>>, NominalDataset, NoFault)}

Pool == IF Cardinality(active) = 1 THEN FullPool ELSE ConcPool

----------------------------------------------------------------------------
(* Python and numpy operations. *)

\* a[k] of Python, k >= 0 or k = -1: defined or IndexError
IndexOk(a, k) == IF k < 0 THEN Len(a) >= -k ELSE k < Len(a)
Index(a, k) ==
    IF ~IndexOk(a, k) THEN 0
    ELSE IF k < 0 THEN a[Len(a) + 1 + k] ELSE a[k + 1]

\* str.replace(old, new): every non-overlapping occurrence, left to right
IsPrefix(old, s) == Len(old) <= Len(s) /\ SubSeq(s, 1, Len(old)) = old
RECURSIVE Replace(_, _, _)
Replace(s, old, new) ==
    IF s = <<>> THEN <<>>
    ELSE IF IsPrefix(old, s)
         THEN new \o Replace(SubSeq(s, Len(old) + 1, Len(s)), old, new)
         ELSE <<Head(s)>> \o Replace(Tail(s), old, new)

\* values[0, :, :].T: (lon, lat) -> (lat, lon)
Transpose(a) ==
    LET nlon == Len(a)
        nlat == IF nlon = 0 THEN 0 ELSE Len(a[1])
    IN [i \in 1..nlat |-> [j \in 1..nlon |-> a[j][i]]]

\* np.where(data == fill_value, np.nan, data)
MaskFill(m, fill) ==
    [i \in DOMAIN m |-> [j \in DOMAIN m[i] |->
        IF m[i][j] = fill THEN NaN ELSE Num(m[i][j])]]

\* data.flatten(): row-major
Flatten(m) == Concat(m)


----------------------------------------------------------------------------
(* OSCARConverter. *)

\* convert, "Read NetCDF" to "Extract time": the fields of time slice 0 as
\* (lat, lon), fill values made NaN, the axes and the date
ReadDataset(d) ==
    LET fill_value == AttrsGet(d.uattrs, "_FillValue", FillDefault)
    IN [u_data |-> MaskFill(Transpose(d.u), fill_value),
        v_data |-> MaskFill(Transpose(d.v), fill_value),
        lats |-> d.lats, lons |-> d.lons,
        year |-> d.time.year, month |-> d.time.month, day |-> d.time.day]

NoDataset == ReadDataset(NoRequest.data)

\* mutant of Calls: v is written before u
CallsSwapped == << [field |-> "v", param |-> 3], [field |-> "u", param |-> 2] >>

\* convert, "Write GRIB2": the two _write_message calls, in order
Calls == << [field |-> "u", param |-> 2], [field |-> "v", param |-> 3] >>

FieldOf(d, k) == IF Calls[k].field = "u" THEN d.u_data ELSE d.v_data

\* codes_grib_new_from_samples('regular_ll_sfc_grib2'): the keys of a new
\* handle; the library marks as missing the points whose value is missingValue
Sample ==
    [Ni |-> 0, Nj |-> 0,
     latitudeOfFirstGridPointInDegrees |-> 0, latitudeOfLastGridPointInDegrees |-> 0,
     longitudeOfFirstGridPointInDegrees |-> 0, longitudeOfLastGridPointInDegrees |-> 0,
     iDirectionIncrementInDegrees |-> 0, jDirectionIncrementInDegrees |-> 0,
     dataDate |-> 0, dataTime |-> 0, discipline |-> 0, parameterCategory |-> 0,
     parameterNumber |-> 0, typeOfLevel |-> "surface", level |-> 0,
     bitmapPresent |-> 0, missingValue |-> 9999, values |-> <<>>]

\* mutant of AxisIndexError: the spacing is not read from a one-point axis
AxisIndexErrorOnEmpty(lats, lons) ==
    \/ ~IndexOk(lats, 0) \/ ~IndexOk(lats, -1)
    \/ ~IndexOk(lons, 0) \/ ~IndexOk(lons, -1)

\* _write_message, the indexing of the axes: whether it raises IndexError
AxisIndexError(lats, lons) ==
    \/ ~IndexOk(lats, 0) \/ ~IndexOk(lats, -1)
    \/ ~IndexOk(lons, 0) \/ ~IndexOk(lons, -1)
    \/ ~IndexOk(lons, 1) \/ ~IndexOk(lats, 1)

\* mutant of Descriptor: the spacing keeps the sign of the first interval
DescriptorSigned(g, lats, lons, year, month, day, param) ==
    [g EXCEPT
        !.Ni = Len(lons),
        !.Nj = Len(lats),
        !.latitudeOfFirstGridPointInDegrees = Index(lats, 0),
        !.latitudeOfLastGridPointInDegrees = Index(lats, -1),
        !.longitudeOfFirstGridPointInDegrees = Index(lons, 0),
        !.longitudeOfLastGridPointInDegrees = Index(lons, -1),
        !.iDirectionIncrementInDegrees = Index(lons, 1) - Index(lons, 0),
        !.jDirectionIncrementInDegrees = Index(lats, 1) - Index(lats, 0),
        !.dataDate = year * 10000 + month * 100 + day,
        !.dataTime = 0,
        !.discipline = 10,
        !.parameterCategory = 1,
        !.parameterNumber = param,
        !.typeOfLevel = "oceanSurface",
        !.level = 0]

\* _write_message, the codes_set calls of the grid, date and parameter keys
Descriptor(g, lats, lons, year, month, day, param) ==
    [g EXCEPT
        !.Ni = Len(lons),
        !.Nj = Len(lats),
        !.latitudeOfFirstGridPointInDegrees = Index(lats, 0),
        !.latitudeOfLastGridPointInDegrees = Index(lats, -1),
        !.longitudeOfFirstGridPointInDegrees = Index(lons, 0),
        !.longitudeOfLastGridPointInDegrees = Index(lons, -1),
        !.iDirectionIncrementInDegrees = Abs(Index(lons, 1) - Index(lons, 0)),
        !.jDirectionIncrementInDegrees = Abs(Index(lats, 1) - Index(lats, 0)),
        !.dataDate = year * 10000 + month * 100 + day,
        !.dataTime = 0,
        !.discipline = 10,
        !.parameterCategory = 1,
        !.parameterNumber = param,
        !.typeOfLevel = "oceanSurface",
        !.level = 0]

\* mutant of AnyNaN: np.all(np.isnan(data_flat))
AllNaN(data) == \A p \in DOMAIN Flatten(data) : IsNaN(Flatten(data)[p])

\* _write_message, "Set data": not np.all(~np.isnan(data_flat))
AnyNaN(data) == \E p \in DOMAIN Flatten(data) : IsNaN(Flatten(data)[p])

\* _write_message, "Set data": the list handed to codes_set_values
Payload(data) ==
    LET data_flat == Flatten(data)
    IN [p \in DOMAIN data_flat |->
          IF AnyNaN(data) /\ IsNaN(data_flat[p]) THEN 0 ELSE data_flat[p].v]

SetData(g, data) ==
    [g EXCEPT !.bitmapPresent = IF AnyNaN(data) THEN 1 ELSE @,
              !.values = Payload(data)]

\* codes_write: the message as a reader decodes it; missing is the set of
\* grid positions its bitmap marks as missing
EncodedMessage(g, corrupt) ==
    [magic |-> IF corrupt THEN "JUNK" ELSE "GRIB",
     keys |-> g,
     missing |-> IF g.bitmapPresent = 1
                 THEN {p \in DOMAIN g.values : g.values[p] = g.missingValue}
                 ELSE {}]

----------------------------------------------------------------------------
(* The /convert route. *)

Absent == [exists |-> FALSE, data |-> <<>>]
File(data) == [exists |-> TRUE, data |-> data]
Paths == {".nc4", ".grb2"} \X TmpNames

\* the names mktemp draws from: one per request of the run (further names
\* are the same runs with the names exchanged)
Candidates == IF Cardinality(active) = 1 THEN {"tmpA"} ELSE TmpNames

\* tempfile.mktemp(suffix): a name that does not exist when it is called
MkTemp(suffix) ==
    {p \in Paths : p[1] = suffix /\ p[2] \in Candidates /\ ~files[p].exists}

NoResponse == [status |-> 0, text |-> "", stream |-> <<>>, download_name |-> <<>>]
Text(status, text) == [NoResponse EXCEPT !.status = status, !.text = text]

\* mutant of Magic: the first bytes are not looked at
MagicUnchecked(data) == "GRIB"

\* f.read(4) of the output file
Magic(data) == IF data = <<>> THEN "" ELSE data[1].magic

\* file.filename.replace('.nc4', '.grb2').replace('.nc', '.grb2')
OutputName(filename) == Replace(Replace(filename, S_nc4, S_grb2), S_nc, S_grb2)

Faulty(r, kind) == req[r].fault = [msg |-> cur[r], kind |-> kind]

Raise(r, e, to) ==
    /\ exc' = [exc EXCEPT ![r] = e]
    /\ pc' = [pc EXCEPT ![r] = to]

Goto(r, to) == pc' = [pc EXCEPT ![r] = to]

\* "Get uploaded file"
Receive(r) ==
    /\ r \in active
    /\ pc[r] = "idle"
    /\ \E q \in Pool :
        /\ req' = [req EXCEPT ![r] = q]
        /\ IF ~q.hasFile
           THEN /\ resp' = [resp EXCEPT ![r] = Text(400, "No file uploaded")]
                /\ Goto(r, "finally")
           ELSE IF q.filename = <<>>
           THEN /\ resp' = [resp EXCEPT ![r] = Text(400, "No file selected")]
                /\ Goto(r, "finally")
           ELSE /\ Goto(r, "mkin")
                /\ UNCHANGED resp
    /\ UNCHANGED <<active, temp_input, temp_output, files, ds, cur, gid, handles, exc>>

\* temp_input = tempfile.mktemp(suffix='.nc4')
MkTempInput(r) ==
    /\ r \in active
    /\ pc[r] = "mkin"
    /\ \E p \in MkTemp(".nc4") : temp_input' = [temp_input EXCEPT ![r] = p]
    /\ Goto(r, "save")
    /\ UNCHANGED <<active, req, temp_output, files, ds, cur, gid, handles, exc, resp>>

\* file.save(temp_input); os.path.getsize(temp_input)
SaveUpload(r) ==
    /\ r \in active
    /\ pc[r] = "save"
    /\ files' = [files EXCEPT ![temp_input[r]] = File(req[r].data)]
    /\ Goto(r, "mkout")
    /\ UNCHANGED <<active, req, temp_input, temp_output, ds, cur, gid, handles, exc, resp>>

\* temp_output = tempfile.mktemp(suffix='.grb2')
MkTempOutput(r) ==
    /\ r \in active
    /\ pc[r] = "mkout"
    /\ \E p \in MkTemp(".grb2") : temp_output' = [temp_output EXCEPT ![r] = p]
    /\ Goto(r, "read")
    /\ UNCHANGED <<active, req, temp_input, files, ds, cur, gid, handles, exc, resp>>

\* converter.convert: xr.open_dataset(input_path) and the reads of its fields
ReadInput(r) ==
    /\ r \in active
    /\ pc[r] = "read"
    /\ IF ~files[temp_input[r]].exists
       THEN Raise(r, "FileNotFoundError", "except") /\ UNCHANGED ds
       ELSE IF req[r].fault.kind = "reader"
       THEN Raise(r, "KeyError", "except") /\ UNCHANGED ds
       ELSE /\ ds' = [ds EXCEPT ![r] = ReadDataset(files[temp_input[r]].data)]
            /\ Goto(r, "open")
            /\ UNCHANGED exc
    /\ UNCHANGED <<active, req, temp_input, temp_output, files, cur, gid, handles, resp>>

\* with open(output_path, 'wb') as f
OpenOutput(r) ==
    /\ r \in active
    /\ pc[r] = "open"
    /\ files' = [files EXCEPT ![temp_output[r]] = File(<<>>)]
    /\ cur' = [cur EXCEPT ![r] = 1]
    /\ Goto(r, "new")
    /\ UNCHANGED <<active, req, temp_input, temp_output, ds, gid, handles, exc, resp>>

\* _write_message: gid = eccodes.codes_grib_new_from_samples(...), before the try
NewHandle(r) ==
    /\ r \in active
    /\ pc[r] = "new"
    /\ IF Faulty(r, "new")
       THEN Raise(r, "CodesInternalError", "except") /\ UNCHANGED <<gid, handles>>
       ELSE /\ gid' = [gid EXCEPT ![r] = Sample]
            /\ handles' = [handles EXCEPT ![r] = Append(@, 0)]
            /\ Goto(r, "set")
            /\ UNCHANGED exc
    /\ UNCHANGED <<active, req, temp_input, temp_output, files, ds, cur, resp>>

\* _write_message: the codes_set calls
SetDescriptor(r) ==
    /\ r \in active
    /\ pc[r] = "set"
    /\ IF Faulty(r, "set")
       THEN Raise(r, "CodesInternalError", "release") /\ UNCHANGED gid
       ELSE IF AxisIndexError(ds[r].lats, ds[r].lons)
       THEN Raise(r, "IndexError", "release") /\ UNCHANGED gid
       ELSE /\ gid' = [gid EXCEPT ![r] =
                         Descriptor(@, ds[r].lats, ds[r].lons, ds[r].year,
                                    ds[r].month, ds[r].day, Calls[cur[r]].param)]
            /\ Goto(r, "values")
            /\ UNCHANGED exc
    /\ UNCHANGED <<active, req, temp_input, temp_output, files, ds, cur, handles, resp>>

\* _write_message: "Set data" and codes_set_values
SetValues(r) ==
    /\ r \in active
    /\ pc[r] = "values"
    /\ IF Faulty(r, "values")
       THEN Raise(r, "CodesInternalError", "release") /\ UNCHANGED gid
       ELSE /\ gid' = [gid EXCEPT ![r] = SetData(@, FieldOf(ds[r], cur[r]))]
            /\ Goto(r, "write")
            /\ UNCHANGED exc
    /\ UNCHANGED <<active, req, temp_input, temp_output, files, ds, cur, handles, resp>>

\* _write_message: eccodes.codes_write(gid, f)
WriteMessage(r) ==
    /\ r \in active
    /\ pc[r] = "write"
    /\ IF Faulty(r, "write")
       THEN Raise(r, "CodesInternalError", "release") /\ UNCHANGED files
       ELSE /\ files' = [files EXCEPT ![temp_output[r]] =
                  File(Append(@.data, EncodedMessage(gid[r], Faulty(r, "corrupt"))))]
            /\ Goto(r, "release")
            /\ UNCHANGED exc
    /\ UNCHANGED <<active, req, temp_input, temp_output, ds, cur, gid, handles, resp>>

\* mutant of ReleaseHandle: the release is not in a finally, and is skipped
\* when a call of the try block raised
ReleaseOnSuccess(r) ==
    /\ r \in active
    /\ pc[r] = "release"
    /\ handles' = IF exc[r] # "none" THEN handles
                  ELSE [handles EXCEPT ![r][Len(handles[r])] = @ + 1]
    /\ gid' = [gid EXCEPT ![r] = None]
    /\ IF exc[r] # "none"
       THEN pc' = [pc EXCEPT ![r] = "except"] /\ UNCHANGED cur
       ELSE IF cur[r] < Len(Calls)
       THEN pc' = [pc EXCEPT ![r] = "new"] /\ cur' = [cur EXCEPT ![r] = @ + 1]
       ELSE pc' = [pc EXCEPT ![r] = "check"] /\ cur' = [cur EXCEPT ![r] = 0]
    /\ UNCHANGED <<active, req, temp_input, temp_output, files, ds, exc, resp>>

\* _write_message: finally: eccodes.codes_release(gid); then the call returns
\* or the exception leaves convert
ReleaseHandle(r) ==
    /\ r \in active
    /\ pc[r] = "release"
    /\ handles' = [handles EXCEPT ![r][Len(handles[r])] = @ + 1]
    /\ gid' = [gid EXCEPT ![r] = None]
    /\ IF exc[r] # "none"
       THEN Goto(r, "except") /\ UNCHANGED cur
       ELSE IF cur[r] < Len(Calls)
       THEN Goto(r, "new") /\ cur' = [cur EXCEPT ![r] = @ + 1]
       ELSE Goto(r, "check") /\ cur' = [cur EXCEPT ![r] = 0]
    /\ UNCHANGED <<active, req, temp_input, temp_output, files, ds, exc, resp>>

\* os.path.getsize(temp_output) and "Check magic bytes"
CheckMagic(r) ==
    /\ r \in active
    /\ pc[r] = "check"
    /\ IF ~files[temp_output[r]].exists
       THEN Raise(r, "FileNotFoundError", "except") /\ UNCHANGED resp
       ELSE IF Magic(files[temp_output[r]].data) # "GRIB"
       THEN /\ resp' = [resp EXCEPT ![r] =
                          Text(500, "Conversion failed: invalid GRIB2 output")]
            /\ Goto(r, "finally")
            /\ UNCHANGED exc
       ELSE Goto(r, "send") /\ UNCHANGED <<exc, resp>>
    /\ UNCHANGED <<active, req, temp_input, temp_output, files, ds, cur, gid, handles>>

\* "Send file": send_file opens temp_output
SendFile(r) ==
    /\ r \in active
    /\ pc[r] = "send"
    /\ IF ~files[temp_output[r]].exists
       THEN Raise(r, "FileNotFoundError", "except") /\ UNCHANGED resp
       ELSE /\ resp' = [resp EXCEPT ![r] =
                  [status |-> 200, text |-> "",
                   stream |-> files[temp_output[r]].data,
                   download_name |-> OutputName(req[r].filename)]]
            /\ Goto(r, "finally")
            /\ UNCHANGED exc
    /\ UNCHANGED <<active, req, temp_input, temp_output, files, ds, cur, gid, handles>>

\* except Exception as e: return str(e), 500
HandleException(r) ==
    /\ r \in active
    /\ pc[r] = "except"
    /\ resp' = [resp EXCEPT ![r] = Text(500, exc[r])]
    /\ Goto(r, "finally")
    /\ UNCHANGED <<active, req, temp_input, temp_output, files, ds, cur, gid, handles, exc>>

\* finally: "Cleanup"
Cleanup(r) ==
    /\ r \in active
    /\ pc[r] = "finally"
    /\ files' = IF temp_input[r] # None /\ files[temp_input[r]].exists
                THEN [files EXCEPT ![temp_input[r]] = Absent]
                ELSE files
    /\ Goto(r, "done")
    /\ UNCHANGED <<active, req, temp_input, temp_output, ds, cur, gid, handles, exc, resp>>

----------------------------------------------------------------------------
(* Specifications. *)

InitLocals ==
    /\ pc = [r \in Handlers |-> "idle"]
    /\ req = [r \in Handlers |-> NoRequest]
    /\ temp_input = [r \in Handlers |-> None]
    /\ temp_output = [r \in Handlers |-> None]
    /\ files = [p \in Paths |-> Absent]
    /\ ds = [r \in Handlers |-> NoDataset]
    /\ cur = [r \in Handlers |-> 0]
    /\ gid = [r \in Handlers |-> None]
    /\ handles = [r \in Handlers |-> <<>>]
    /\ exc = [r \in Handlers |-> "none"]
    /\ resp = [r \in Handlers |-> NoResponse]

\* one request, alone
Init == active = {"h1"} /\ InitLocals

\* two requests, each on its own thread
InitConc == active = Handlers /\ InitLocals

Next ==
    \E r \in Handlers :
        \/ Receive(r)
        \/ MkTempInput(r)
        \/ SaveUpload(r)
        \/ MkTempOutput(r)
        \/ ReadInput(r)
        \/ OpenOutput(r)
        \/ NewHandle(r)
        \/ SetDescriptor(r)
        \/ SetValues(r)
        \/ WriteMessage(r)
        \/ ReleaseHandle(r)
        \/ CheckMagic(r)
        \/ SendFile(r)
        \/ HandleException(r)
        \/ Cleanup(r)

Spec == Init /\ [][Next]_vars

SpecConc == InitConc /\ [][Next]_vars


----------------------------------------------------------------------------
(* What the claims speak of, stated on the upload itself. *)

Finished(r) == pc[r] = "done"
InFlight(r) == pc[r] \notin {"idle", "done"}
Success(r) == resp[r].status = 200
\* the request passed the "Get uploaded file" checks
Accepted(r) == req[r].hasFile /\ req[r].filename # <<>>
\* the output file of request r
Output(r) == IF temp_output[r] = None THEN <<>> ELSE files[temp_output[r]].data

\* the stored field the k-th message is about: u, then v
StoredOf(d, k) == IF k = 1 THEN d.u ELSE d.v
FillOf(d) == IF "_FillValue" \in DOMAIN d.uattrs THEN d.uattrs["_FillValue"] ELSE -999
GridSize(d) == Len(d.lats) * Len(d.lons)
\* the raw value at grid position p, latitude-major: p = (i - 1) * nlon + j
RawAt(d, k, p) ==
    StoredOf(d, k)[((p - 1) % Len(d.lons)) + 1][((p - 1) \div Len(d.lons)) + 1]
Flagged(d, k) == {p \in 1..GridSize(d) : RawAt(d, k, p) = FillOf(d)}
ExpectedPayload(d, k) ==
    [p \in 1..GridSize(d) |-> IF p \in Flagged(d, k) THEN 0 ELSE RawAt(d, k, p)]

EndsWith(s, suf) ==
    Len(suf) <= Len(s) /\ SubSeq(s, Len(s) - Len(suf) + 1, Len(s)) = suf
FirstFour(stream) == IF stream = <<>> THEN "" ELSE stream[1].magic
ShortAxis(d) == Len(d.lats) < 2 \/ Len(d.lons) < 2


----------------------------------------------------------------------------
(* The claims. *)

\* C1: a success response delivers exactly two messages: the message of field
\* u with parameter code 2 first, the message of field v with code 3 second.
C1_TwoMessagesInOrder ==
    \A r \in active :
        Success(r) =>
            LET s == resp[r].stream
            IN /\ Len(s) = 2
               /\ s[1].keys.parameterNumber = 2
               /\ s[1].keys.values = ExpectedPayload(req[r].data, 1)
               /\ s[2].keys.parameterNumber = 3
               /\ s[2].keys.values = ExpectedPayload(req[r].data, 2)

\* a success response whose two fields differ, so that their order shows
C1_Witness ==
    \E r \in active :
        /\ Finished(r) /\ Success(r)
        /\ Len(resp[r].stream) = 2
        /\ resp[r].stream[1].keys.values # resp[r].stream[2].keys.values

\* C2: in every written message, the bitmap marks position p as missing iff
\* the input cell at p holds the fill value.
C2_BitmapMarksMissing ==
    \A r \in active :
        \A k \in DOMAIN Output(r) :
            Output(r)[k].missing = Flagged(req[r].data, k)

\* C3: per field: with a missing cell the message carries a bitmap and the
\* payload is the flattened field with 0 at the missing cells; without one it
\* carries no bitmap and the payload is the flattened field.
C3_BitmapDecision ==
    \A r \in active :
        \A k \in DOMAIN Output(r) :
            LET m == Output(r)[k].keys
            IN /\ m.values = ExpectedPayload(req[r].data, k)
               /\ m.bitmapPresent = IF Flagged(req[r].data, k) # {} THEN 1 ELSE 0

\* a conversion whose u message carries a bitmap and whose v message does not
C3_Witness ==
    \E r \in active :
        /\ Success(r)
        /\ Len(Output(r)) = 2
        /\ Output(r)[1].keys.bitmapPresent = 1
        /\ 0 \in {Output(r)[1].keys.values[p] : p \in Flagged(req[r].data, 1)}
        /\ Output(r)[2].keys.bitmapPresent = 0

\* C4: once a request has finished, its saved upload and its output file are
\* both gone.
C4_TempFilesRemoved ==
    \A r \in active :
        Finished(r) =>
            /\ temp_input[r] # None => ~files[temp_input[r]].exists
            /\ temp_output[r] # None => ~files[temp_output[r]].exists

\* C5: a 2 x 2 grid converts without error; an axis of fewer than 2 points
\* fails with the error kind EmptyAxis, and nothing is delivered.
C5_EmptyAxisKind ==
    \A r \in active :
        (Finished(r) /\ Accepted(r) /\ req[r].fault = NoFault) =>
            /\ (Len(req[r].data.lats) = 2 /\ Len(req[r].data.lons) = 2)
                  => (Success(r) /\ exc[r] = "none")
            /\ ShortAxis(req[r].data)
                  => (exc[r] = "EmptyAxis" /\ resp[r].stream = <<>>)

\* C5, amended: a 2 x 2 grid converts without error; an axis of fewer than 2
\* points fails in the encoder with IndexError (status 500, the text of the
\* exception), and nothing is delivered.
C5_ShortAxisIndexError ==
    \A r \in active :
        (Finished(r) /\ Accepted(r) /\ req[r].fault = NoFault) =>
            /\ (Len(req[r].data.lats) = 2 /\ Len(req[r].data.lons) = 2)
                  => (Success(r) /\ exc[r] = "none")
            /\ ShortAxis(req[r].data)
                  => /\ exc[r] = "IndexError"
                     /\ resp[r].status = 500
                     /\ resp[r].text = "IndexError"
                     /\ resp[r].stream = <<>>

\* a finished request whose longitude axis has one point and whose latitude
\* axis has two
C5_Witness ==
    \E r \in active :
        /\ Finished(r) /\ Accepted(r) /\ req[r].fault = NoFault
        /\ Len(req[r].data.lons) = 1 /\ Len(req[r].data.lats) = 2
        /\ resp[r].status = 500

\* C6: a success response only for an output file that starts with GRIB; a
\* conversion that raised nothing but left other first bytes ends with status
\* 500 and delivers nothing.
C6_MagicGuard ==
    \A r \in active :
        /\ Success(r) =>
              FirstFour(resp[r].stream) = "GRIB" /\ FirstFour(Output(r)) = "GRIB"
        /\ (pc[r] \in {"finally", "done"} /\ Accepted(r) /\ exc[r] = "none"
              /\ FirstFour(Output(r)) # "GRIB")
              => (resp[r].status = 500 /\ resp[r].stream = <<>>)

\* a conversion that raised nothing, wrote other first bytes and was refused
C6_Witness ==
    \E r \in active :
        /\ Finished(r) /\ Accepted(r) /\ exc[r] = "none"
        /\ Len(Output(r)) = 2 /\ FirstFour(Output(r)) = "JUNK"
        /\ resp[r].status = 500

\* C7: two requests in flight never use the same temporary path, and every
\* success response carries the conversion of the request's own upload.
C7_NoSharedPaths ==
    /\ \A r1, r2 \in active :
          (r1 # r2 /\ InFlight(r1) /\ InFlight(r2)) =>
              /\ (temp_input[r1] # None /\ temp_input[r2] # None)
                    => temp_input[r1] # temp_input[r2]
              /\ (temp_output[r1] # None /\ temp_output[r2] # None)
                    => temp_output[r1] # temp_output[r2]
    /\ \A r \in active :
          Success(r) =>
              /\ Len(resp[r].stream) = 2
              /\ \A k \in 1..2 :
                    resp[r].stream[k].keys.values = ExpectedPayload(req[r].data, k)

\* C8: for a filename that ends in .nc or .nc4, the download name is the
\* filename with that trailing suffix alone replaced by .grb2.
C8_SuffixOnly ==
    \A r \in active :
        Success(r) =>
            LET n == req[r].filename
            IN /\ EndsWith(n, S_nc4)
                  => resp[r].download_name = SubSeq(n, 1, Len(n) - 4) \o S_grb2
               /\ EndsWith(n, S_nc)
                  => resp[r].download_name = SubSeq(n, 1, Len(n) - 3) \o S_grb2

\* C9: every written message's grid descriptor comes from the axes alone:
\* the point counts, the first and last coordinates as given, the absolute
\* first interval as spacing; the u and the v message carry the same one.
C9_DescriptorFromAxes ==
    \A r \in active :
        \A k \in DOMAIN Output(r) :
            LET m == Output(r)[k].keys
                lats == req[r].data.lats
                lons == req[r].data.lons
                dlon == lons[2] - lons[1]
                dlat == lats[2] - lats[1]
            IN /\ Len(lats) >= 2 /\ Len(lons) >= 2
               /\ m.Ni = Len(lons) /\ m.Nj = Len(lats)
               /\ m.latitudeOfFirstGridPointInDegrees = lats[1]
               /\ m.latitudeOfLastGridPointInDegrees = lats[Len(lats)]
               /\ m.longitudeOfFirstGridPointInDegrees = lons[1]
               /\ m.longitudeOfLastGridPointInDegrees = lons[Len(lons)]
               /\ m.iDirectionIncrementInDegrees = (IF dlon < 0 THEN -dlon ELSE dlon)
               /\ m.jDirectionIncrementInDegrees = (IF dlat < 0 THEN -dlat ELSE dlat)
               /\ \A f \in {"Ni", "Nj", "latitudeOfFirstGridPointInDegrees",
                            "latitudeOfLastGridPointInDegrees",
                            "longitudeOfFirstGridPointInDegrees",
                            "longitudeOfLastGridPointInDegrees",
                            "iDirectionIncrementInDegrees",
                            "jDirectionIncrementInDegrees"} :
                     m[f] = Output(r)[1].keys[f]

\* two messages written from a decreasing longitude axis and a latitude axis
\* whose intervals differ
C9_Witness ==
    \E r \in active :
        /\ Success(r) /\ Len(Output(r)) = 2
        /\ LET lats == req[r].data.lats
               lons == req[r].data.lons
           IN /\ lons[2] < lons[1]
              /\ Len(lats) = 3
              /\ lats[3] - lats[2] # lats[2] - lats[1]

\* C10: a handle is never released twice, at most one is live, one is live
\* only inside the encoder call that acquired it, and none is once the call
\* has returned or raised.
C10_HandlesReleased ==
    \A r \in active :
        /\ \A h \in DOMAIN handles[r] : handles[r][h] <= 1
        /\ Cardinality({h \in DOMAIN handles[r] : handles[r][h] = 0}) <= 1
        /\ pc[r] \notin {"set", "values", "write", "release"}
              => \A h \in DOMAIN handles[r] : handles[r][h] = 1

\* a request that failed inside its second encoder call, both handles released
C10_Witness ==
    \E r \in active :
        /\ Finished(r) /\ exc[r] # "none"
        /\ handles[r] = <<1, 1>>

====
